---- MODULE Spec2Model ----
(***************************************************************************)
(* Model of the todo service's server core: the in-memory repositories     *)
(* (utils/database), the JWT session guard (middleware/auth), the auth     *)
(* routes (routes/auth) and the todo routes (routes/todos).                *)
(*                                                                         *)
(* Node runs every handler to completion between awaits, so one action is  *)
(* one synchronous stretch of a handler: a handler with an `await` is a    *)
(* Start action (up to the await) and a Finish action (after it), and the  *)
(* request waits in `inflight` in between.                                 *)
(***************************************************************************)
EXTENDS Integers, Sequences, FiniteSets, TLC

(***************************************************************************)
(* Bounds of the model.                                                    *)
(***************************************************************************)
MaxIds == 2
MaxTicks == 1
MaxInflight == 2
MaxTodos == 2
MaxIssued == 3
MaxSeeded == 3

(***************************************************************************)
(* Program constants.                                                      *)
(***************************************************************************)
TokenTTL == 86400
MinPasswordLength == 8
MaxLimit == 100
DefaultPage == 1
DefaultLimit == 10

(***************************************************************************)
(* JavaScript values.  undefined and null are kept apart from the empty    *)
(* string because the code tests them differently (`!x`, `x !== undefined`,*)
(* `x || default`).                                                        *)
(***************************************************************************)
Undefined == "<undefined>"
Null == "<null>"

Falsy(x) == x \in {Undefined, Null, ""}

OrDefault(x, d) == IF Falsy(x) THEN d ELSE x

NoId == 0

VARIABLES users, todos, invalidatedTokens, now, ticks, nextId, issued,
          inflight, last, client

vars == <<users, todos, invalidatedTokens, now, ticks, nextId, issued,
          inflight, last, client>>

(***************************************************************************)
(* Sequence helpers (Array.prototype.find / filter / findIndex / splice).  *)
(***************************************************************************)
Range(s) == {s[i] : i \in 1..Len(s)}

RECURSIVE SeqFilter(_, _)
SeqFilter(s, keep) ==
  IF s = <<>> THEN <<>>
  ELSE IF Head(s) \in keep THEN <<Head(s)>> \o SeqFilter(Tail(s), keep)
       ELSE SeqFilter(Tail(s), keep)

FindIndex(s, S) ==
  IF \E i \in 1..Len(s) : s[i] \in S
  THEN CHOOSE i \in 1..Len(s) : s[i] \in S /\ \A j \in 1..(i-1) : s[j] \notin S
  ELSE 0

Splice(s, i) == SubSeq(s, 1, i-1) \o SubSeq(s, i+1, Len(s))

(***************************************************************************)
(* Credential store: bcrypt.hash / bcrypt.compare.  The digest is not the  *)
(* plaintext; compare succeeds exactly on the plaintext that was hashed.   *)
(***************************************************************************)
BcryptHash(password) == <<"$2a$10$", password>>

BcryptCompare(password, digest) == digest = BcryptHash(password)

(***************************************************************************)
(* Token service.  jwt.sign({userId}, secret, {expiresIn: '24h'}) yields a *)
(* string determined by the payload {userId, iat, exp} and the secret.     *)
(***************************************************************************)
NoToken == [userId |-> NoId, iat |-> 0, exp |-> 0, sig |-> "none"]

GarbageToken == [userId |-> NoId, iat |-> 0, exp |-> 0, sig |-> "malformed"]

\* generateToken signing with a zero lifetime.
generateTokenNoTTL(userId) ==
  [userId |-> userId, iat |-> now, exp |-> now, sig |-> "HS256"]

generateToken(userId) ==
  [userId |-> userId, iat |-> now, exp |-> now + TokenTTL, sig |-> "HS256"]

\* jwt.decode in place of jwt.verify: the signature is not checked.
JwtVerifyUnsigned(token) ==
  IF token.sig \in {"malformed", "none"}
  THEN [ok |-> FALSE, error |-> "JsonWebTokenError", userId |-> NoId]
  ELSE IF now >= token.exp
  THEN [ok |-> FALSE, error |-> "TokenExpiredError", userId |-> NoId]
  ELSE [ok |-> TRUE, error |-> "", userId |-> token.userId]

\* The expiry looked at before the signature.
JwtVerifyExpiryFirst(token) ==
  IF token.sig \in {"malformed", "none"}
  THEN [ok |-> FALSE, error |-> "JsonWebTokenError", userId |-> NoId]
  ELSE IF now >= token.exp
  THEN [ok |-> FALSE, error |-> "TokenExpiredError", userId |-> NoId]
  ELSE IF token.sig # "HS256"
  THEN [ok |-> FALSE, error |-> "JsonWebTokenError", userId |-> NoId]
  ELSE [ok |-> TRUE, error |-> "", userId |-> token.userId]

\* jwt.verify: malformed or badly signed -> JsonWebTokenError; then the
\* expiry (clockTimestamp >= exp) -> TokenExpiredError; else the payload.
JwtVerify(token) ==
  IF token.sig # "HS256" THEN [ok |-> FALSE, error |-> "JsonWebTokenError", userId |-> NoId]
  ELSE IF now >= token.exp THEN [ok |-> FALSE, error |-> "TokenExpiredError", userId |-> NoId]
  ELSE [ok |-> TRUE, error |-> "", userId |-> token.userId]

isInvalidated(token) == token \in invalidatedTokens

\* invalidate keeping only the latest token.
invalidateOnly(token) == {token}

invalidate(token) == invalidatedTokens \cup {token}

(***************************************************************************)
(* User repository (userDB).                                               *)
(***************************************************************************)
NoUser == [id |-> NoId, name |-> Undefined, email |-> Undefined,
           password |-> <<>>, phone |-> Undefined, address |-> Undefined,
           createdAt |-> 0, updatedAt |-> 0]

\* findByEmail never finding anyone.
userFindByEmailNobody(email) == NoUser

userFindByEmail(email) ==
  LET i == FindIndex(users, {u \in Range(users) : u.email = email})
  IN IF i = 0 THEN NoUser ELSE users[i]

\* findById falling back to the first stored user.
userFindByIdOrFirst(id) ==
  LET i == FindIndex(users, {u \in Range(users) : u.id = id})
  IN IF i # 0 THEN users[i] ELSE IF users = <<>> THEN NoUser ELSE users[1]

userFindById(id) ==
  LET i == FindIndex(users, {u \in Range(users) : u.id = id})
  IN IF i = 0 THEN NoUser ELSE users[i]

userCreate(user) == Append(users, user)

NewUserAt(id, name, email, password, at) ==
  [id |-> id, name |-> name, email |-> email, password |-> password,
   phone |-> Null, address |-> Null, createdAt |-> at, updatedAt |-> at]

\* new User({...}): both timestamps are the time of construction.
NewUser(id, name, email, password) == NewUserAt(id, name, email, password, now)

\* toJSON handing out the whole record.
UserToJSONWhole(u) == u

UserToJSON(u) ==
  [id |-> u.id, name |-> u.name, email |-> u.email,
   phone |-> u.phone, address |-> u.address,
   createdAt |-> u.createdAt, updatedAt |-> u.updatedAt]

NoDigest == <<>>

\* User.update leaving the password as it is.
UserUpdateKeepingPassword(u, updates) ==
  [u EXCEPT !.name = IF updates.name # Undefined THEN updates.name ELSE @,
            !.email = IF updates.email # Undefined THEN updates.email ELSE @,
            !.phone = IF updates.phone # Undefined THEN updates.phone ELSE @,
            !.address = IF updates.address # Undefined THEN updates.address ELSE @,
            !.updatedAt = now]

\* User.update: a field is assigned when the update carries it
\* (`!== undefined`); updatedAt is always refreshed.
UserUpdate(u, updates) ==
  [u EXCEPT !.name = IF updates.name # Undefined THEN updates.name ELSE @,
            !.email = IF updates.email # Undefined THEN updates.email ELSE @,
            !.phone = IF updates.phone # Undefined THEN updates.phone ELSE @,
            !.address = IF updates.address # Undefined THEN updates.address ELSE @,
            !.password = IF updates.password # NoDigest THEN updates.password ELSE @,
            !.updatedAt = now]

userUpdate(id, updates) ==
  LET i == FindIndex(users, {u \in Range(users) : u.id = id})
  IN IF i = 0 THEN users ELSE [users EXCEPT ![i] = UserUpdate(@, updates)]

\* What userDB.update returns: the updated user, or null (NoUser).
userUpdateReturn(id, updates) ==
  LET i == FindIndex(users, {u \in Range(users) : u.id = id})
  IN IF i = 0 THEN NoUser ELSE UserUpdate(users[i], updates)

userDelete(id) ==
  LET i == FindIndex(users, {u \in Range(users) : u.id = id})
  IN IF i = 0 THEN users ELSE Splice(users, i)

(***************************************************************************)
(* Todo model and repository (todoDB).                                     *)
(***************************************************************************)
NoTodo == [id |-> NoId, userId |-> NoId, title |-> Undefined,
           description |-> Undefined, status |-> Undefined,
           priority |-> Undefined, dueDate |-> Undefined,
           createdAt |-> 0, updatedAt |-> 0]

\* new Todo({...}): the constructor's defaults.
NewTodo(id, userId, title, description, status, priority, dueDate) ==
  [id |-> id, userId |-> userId, title |-> title,
   description |-> OrDefault(description, ""),
   status |-> OrDefault(status, "pending"),
   priority |-> OrDefault(priority, "medium"),
   dueDate |-> OrDefault(dueDate, Null),
   createdAt |-> now, updatedAt |-> now]

\* Todo.update copying every field the updates carry (Object.assign).
TodoUpdateMerging(t, updates) ==
  [f \in DOMAIN t |->
     IF f = "updatedAt" THEN now
     ELSE IF f \notin DOMAIN updates THEN t[f]
     ELSE IF f \in {"id", "userId"} THEN updates[f]
     ELSE IF updates[f] # Undefined THEN updates[f]
     ELSE t[f]]

\* Todo.update.
TodoUpdate(t, updates) ==
  [t EXCEPT !.title = IF updates.title # Undefined THEN updates.title ELSE @,
            !.description = IF updates.description # Undefined THEN updates.description ELSE @,
            !.status = IF updates.status # Undefined THEN updates.status ELSE @,
            !.priority = IF updates.priority # Undefined THEN updates.priority ELSE @,
            !.dueDate = IF updates.dueDate # Undefined THEN updates.dueDate ELSE @,
            !.updatedAt = now]

TodoToJSON(t) ==
  [id |-> t.id, userId |-> t.userId, title |-> t.title,
   description |-> t.description, status |-> t.status,
   priority |-> t.priority, dueDate |-> t.dueDate,
   createdAt |-> t.createdAt, updatedAt |-> t.updatedAt]

\* findByUserId applying the filters to every user's todos.
todoFindByUserIdAnyOwner(userId, filters) ==
  LET byStatus == IF ~Falsy(filters.status)
                  THEN SeqFilter(todos, {t \in Range(todos) : t.status = filters.status})
                  ELSE todos
  IN IF ~Falsy(filters.priority)
     THEN SeqFilter(byStatus, {t \in Range(byStatus) : t.priority = filters.priority})
     ELSE byStatus

\* findByUserId keeping a todo that matches either filter.
todoFindByUserIdEitherFilter(userId, filters) ==
  LET owned == SeqFilter(todos, {t \in Range(todos) : t.userId = userId})
  IN IF ~Falsy(filters.status) /\ ~Falsy(filters.priority)
     THEN SeqFilter(owned, {t \in Range(owned) :
                              \/ t.status = filters.status
                              \/ t.priority = filters.priority})
     ELSE IF ~Falsy(filters.status)
     THEN SeqFilter(owned, {t \in Range(owned) : t.status = filters.status})
     ELSE IF ~Falsy(filters.priority)
     THEN SeqFilter(owned, {t \in Range(owned) : t.priority = filters.priority})
     ELSE owned

todoFindByUserId(userId, filters) ==
  LET owned == SeqFilter(todos, {t \in Range(todos) : t.userId = userId})
      byStatus == IF ~Falsy(filters.status)
                  THEN SeqFilter(owned, {t \in Range(owned) : t.status = filters.status})
                  ELSE owned
  IN IF ~Falsy(filters.priority)
     THEN SeqFilter(byStatus, {t \in Range(byStatus) : t.priority = filters.priority})
     ELSE byStatus

todoFindById(id) ==
  LET i == FindIndex(todos, {t \in Range(todos) : t.id = id})
  IN IF i = 0 THEN NoTodo ELSE todos[i]

todoCreate(todo) == Append(todos, todo)

\* todoDB.update updating every todo, whatever its id.
todoUpdateEvery(id, updates) ==
  [i \in 1..Len(todos) |-> TodoUpdate(todos[i], updates)]

todoUpdate(id, updates) ==
  LET i == FindIndex(todos, {t \in Range(todos) : t.id = id})
  IN IF i = 0 THEN todos ELSE [todos EXCEPT ![i] = TodoUpdate(@, updates)]

\* What todoDB.update returns: the updated todo, or null (NoTodo).
todoUpdateReturn(id, updates) ==
  LET i == FindIndex(todos, {t \in Range(todos) : t.id = id})
  IN IF i = 0 THEN NoTodo ELSE TodoUpdate(todos[i], updates)

todoDelete(id) ==
  LET i == FindIndex(todos, {t \in Range(todos) : t.id = id})
  IN IF i = 0 THEN todos ELSE Splice(todos, i)

\* deleteByUserId emptying the whole collection.
todoDeleteByUserIdEveryone(userId) == <<>>

todoDeleteByUserId(userId) ==
  SeqFilter(todos, {t \in Range(todos) : t.userId # userId})

\* What deleteByUserId returns: initialLength - database.todos.length.
todoDeleteByUserIdCount(userId) ==
  Len(todos) - Len(todoDeleteByUserId(userId))

(***************************************************************************)
(* Requests and responses.  `last` is the exchange the latest step made:   *)
(* the request's route, what the session guard attached to the request     *)
(* (next, reqUser, reqToken), whether the route's handler ran, and the     *)
(* response sent.  status 0 means no response yet (the handler is waiting  *)
(* on an await).                                                           *)
(***************************************************************************)
NoHeader == [scheme |-> "none", token |-> NoToken]

Bearer(token) == [scheme |-> "Bearer", token |-> token]

NoUserJSON == [id |-> NoId, name |-> Undefined, email |-> Undefined,
               phone |-> Undefined, address |-> Undefined,
               createdAt |-> 0, updatedAt |-> 0]

NoPagination == [currentPage |-> 0, totalPages |-> 0, totalItems |-> 0,
                 itemsPerPage |-> 0]

Blank ==
  [route |-> "", next |-> FALSE, handled |-> FALSE,
   reqUser |-> NoUser, reqToken |-> NoToken,
   status |-> 0, error |-> "", message |-> "",
   todoId |-> NoId, todos |-> <<>>, pagination |-> NoPagination,
   token |-> NoToken, user |-> NoUserJSON]

Reply(route, status, error, message) ==
  [Blank EXCEPT !.route = route, !.status = status, !.error = error,
                !.message = message]

(***************************************************************************)
(* Session guard (authenticate).  The result says whether next() is        *)
(* called, and if not which response is sent.                              *)
(***************************************************************************)
Rejected(status, error, message) ==
  [next |-> FALSE, status |-> status, error |-> error, message |-> message,
   user |-> NoUser, token |-> NoToken]

\* authenticate verifying the token before it looks at the revoked set.
authenticateVerifyFirst(header) ==
  IF header.scheme # "Bearer"
  THEN Rejected(401, "Unauthorized", "Authentication required or invalid token")
  ELSE LET token == header.token
           decoded == JwtVerify(token)
           user == userFindById(decoded.userId)
       IN IF ~decoded.ok /\ decoded.error = "JsonWebTokenError"
          THEN Rejected(401, "Unauthorized", "Invalid token")
          ELSE IF ~decoded.ok /\ decoded.error = "TokenExpiredError"
          THEN Rejected(401, "Unauthorized", "Token has expired")
          ELSE IF isInvalidated(token)
          THEN Rejected(401, "Unauthorized", "Token has been invalidated. Please login again.")
          ELSE IF user = NoUser
          THEN Rejected(401, "Unauthorized", "User not found")
          ELSE [next |-> TRUE, status |-> 0, error |-> "", message |-> "",
                user |-> user, token |-> token]

\* authenticate without the `if (!user)` rejection.
authenticateNoUserCheck(header) ==
  IF header.scheme # "Bearer"
  THEN Rejected(401, "Unauthorized", "Authentication required or invalid token")
  ELSE LET token == header.token
           decoded == JwtVerify(token)
           user == userFindById(decoded.userId)
       IN IF isInvalidated(token)
          THEN Rejected(401, "Unauthorized", "Token has been invalidated. Please login again.")
          ELSE IF ~decoded.ok /\ decoded.error = "JsonWebTokenError"
          THEN Rejected(401, "Unauthorized", "Invalid token")
          ELSE IF ~decoded.ok /\ decoded.error = "TokenExpiredError"
          THEN Rejected(401, "Unauthorized", "Token has expired")
          ELSE [next |-> TRUE, status |-> 0, error |-> "", message |-> "",
                user |-> user, token |-> token]

authenticate(header) ==
  IF header.scheme # "Bearer"
  THEN Rejected(401, "Unauthorized", "Authentication required or invalid token")
  ELSE LET token == header.token
           decoded == JwtVerify(token)
           user == userFindById(decoded.userId)
       IN IF isInvalidated(token)
          THEN Rejected(401, "Unauthorized", "Token has been invalidated. Please login again.")
          ELSE IF ~decoded.ok /\ decoded.error = "JsonWebTokenError"
          THEN Rejected(401, "Unauthorized", "Invalid token")
          ELSE IF ~decoded.ok /\ decoded.error = "TokenExpiredError"
          THEN Rejected(401, "Unauthorized", "Token has expired")
          ELSE IF ~decoded.ok
          THEN Rejected(500, "Internal Server Error", "Authentication error")
          ELSE IF user = NoUser
          THEN Rejected(401, "Unauthorized", "User not found")
          ELSE [next |-> TRUE, status |-> 0, error |-> "", message |-> "",
                user |-> user, token |-> token]

\* The exchange of a request the guard has looked at: rejected, or passed on
\* to the handler with req.user and req.token attached.
Guarded(route, header) ==
  LET a == authenticate(header)
  IN [Blank EXCEPT !.route = route, !.next = a.next,
                   !.reqUser = a.user, !.reqToken = a.token,
                   !.status = a.status, !.error = a.error,
                   !.message = a.message]

(***************************************************************************)
(* What a client can send.                                                 *)
(***************************************************************************)
Emails == {"alice@example.com", "bob@example.com"}

Passwords == {"pass123", "password123"}

Names == {"Alice"}

NewNames == {"Alicia"}

IssuedTokens == {i.token : i \in issued}

Forged(token) == [token EXCEPT !.sig = "forged"]

\* The client (services/api.js) attaches `Bearer <token>` when it holds a
\* token and no Authorization header otherwise.
ClientHeaders == {NoHeader} \cup {Bearer(t) : t \in IssuedTokens}

\* Every header the guard may be shown, also by other clients.
Headers ==
  {NoHeader, [scheme |-> "Basic", token |-> NoToken], Bearer(GarbageToken)}
    \cup {Bearer(t) : t \in IssuedTokens}
    \cup {Bearer(Forged(t)) : t \in IssuedTokens}

Slots == 1..MaxInflight

Idle == [op |-> "idle", email |-> Undefined, password |-> Undefined,
         newPassword |-> Undefined, name |-> Undefined, user |-> NoUser,
         digest |-> NoDigest]

\* A new awaiting request takes the first free slot.
FreeSlot(s) ==
  /\ inflight[s] = Idle
  /\ \A q \in 1..(s-1) : inflight[q] # Idle

Busy == {q \in Slots : inflight[q] # Idle}

\* Bound on the tokens the model lets the service sign.
MayIssue == Cardinality(issued) + Cardinality(Busy) < MaxIssued

(***************************************************************************)
(* The browser's session (context/AuthContext): the token and the user in  *)
(* localStorage, the user in the React state, whether a logout call is     *)
(* under way, and the page shown.  NoToken and NoUserJSON stand for null.  *)
(***************************************************************************)
NoClient ==
  [token |-> NoToken, storedUser |-> NoUserJSON, user |-> NoUserJSON,
   phase |-> "idle", location |-> "/"]

(***************************************************************************)
(* State after construction: empty collections.                            *)
(***************************************************************************)
Init ==
  /\ users = <<>>
  /\ todos = <<>>
  /\ invalidatedTokens = {}
  /\ now = 0
  /\ ticks = 0
  /\ nextId = 1
  /\ issued = {}
  /\ inflight = [s \in Slots |-> Idle]
  /\ last = Blank
  /\ client = NoClient

(***************************************************************************)
(* The clock, in seconds.                                                  *)
(***************************************************************************)
TickSteps == {1, TokenTTL + 1}

Tick(d) ==
  /\ ticks < MaxTicks
  /\ now' = now + d
  /\ ticks' = ticks + 1
  /\ last' = Blank
  /\ UNCHANGED <<client, users, todos, invalidatedTokens, nextId, issued, inflight>>

(***************************************************************************)
(* POST /api/auth/register.                                                *)
(***************************************************************************)
RegisterRoute == "POST /api/auth/register"

RegisterStart(s, email, password, name) ==
  /\ FreeSlot(s)
  /\ MayIssue
  /\ IF Falsy(email) \/ Falsy(password) \/ Falsy(name)
     THEN /\ last' = Reply(RegisterRoute, 400, "Bad Request",
                           "Email, password, and name are required")
          /\ UNCHANGED inflight
     ELSE IF Len(password) < MinPasswordLength
     THEN /\ last' = Reply(RegisterRoute, 400, "Bad Request",
                           "Password must be at least 8 characters long")
          /\ UNCHANGED inflight
     ELSE IF userFindByEmail(email) # NoUser
     THEN /\ last' = Reply(RegisterRoute, 409, "Conflict",
                           "User with this email already exists")
          /\ UNCHANGED inflight
     ELSE /\ inflight' = [inflight EXCEPT ![s] =
                [Idle EXCEPT !.op = "register", !.email = email,
                             !.name = name,
                             !.digest = BcryptHash(password)]]
          /\ last' = [Blank EXCEPT !.route = RegisterRoute]
  /\ UNCHANGED <<client, users, todos, invalidatedTokens, now, ticks, nextId, issued>>

\* After `await bcrypt.hash`: build the User, store it, sign its token.
RegisterFinish(s) ==
  /\ inflight[s].op = "register"
  /\ nextId <= MaxIds
  /\ LET r == inflight[s]
         newUser == NewUser(nextId, r.name, r.email, r.digest)
         token == generateToken(newUser.id)
     IN /\ users' = userCreate(newUser)
        /\ issued' = issued \cup {[userId |-> newUser.id, at |-> now, token |-> token]}
        /\ last' = [Reply(RegisterRoute, 201, "", "User registered successfully")
                      EXCEPT !.user = UserToJSON(newUser), !.token = token]
  /\ nextId' = nextId + 1
  /\ inflight' = [inflight EXCEPT ![s] = Idle]
  /\ UNCHANGED <<client, todos, invalidatedTokens, now, ticks>>

(***************************************************************************)
(* POST /api/auth/login.                                                   *)
(***************************************************************************)
LoginRoute == "POST /api/auth/login"

\* login telling an unknown email apart from a wrong password.
LoginStartRevealing(s, email, password) ==
  /\ FreeSlot(s)
  /\ MayIssue
  /\ LET user == userFindByEmail(email)
     IN IF Falsy(email) \/ Falsy(password)
        THEN /\ last' = Reply(LoginRoute, 400, "Bad Request",
                              "Email and password are required")
             /\ UNCHANGED inflight
        ELSE IF user = NoUser
        THEN /\ last' = Reply(LoginRoute, 404, "Not Found", "User not found")
             /\ UNCHANGED inflight
        ELSE /\ inflight' = [inflight EXCEPT ![s] =
                   [Idle EXCEPT !.op = "login", !.password = password,
                                !.user = user, !.digest = user.password]]
             /\ last' = [Blank EXCEPT !.route = LoginRoute]
  /\ UNCHANGED <<client, users, todos, invalidatedTokens, now, ticks, nextId, issued>>

LoginStart(s, email, password) ==
  /\ FreeSlot(s)
  /\ MayIssue
  /\ LET user == userFindByEmail(email)
     IN IF Falsy(email) \/ Falsy(password)
        THEN /\ last' = Reply(LoginRoute, 400, "Bad Request",
                              "Email and password are required")
             /\ UNCHANGED inflight
        ELSE IF user = NoUser
        THEN /\ last' = Reply(LoginRoute, 401, "Unauthorized",
                              "Invalid email or password")
             /\ UNCHANGED inflight
        ELSE /\ inflight' = [inflight EXCEPT ![s] =
                   [Idle EXCEPT !.op = "login", !.password = password,
                                !.user = user, !.digest = user.password]]
             /\ last' = [Blank EXCEPT !.route = LoginRoute]
  /\ UNCHANGED <<client, users, todos, invalidatedTokens, now, ticks, nextId, issued>>

\* After `await bcrypt.compare`.
LoginFinish(s) ==
  /\ inflight[s].op = "login"
  /\ LET r == inflight[s]
         token == generateToken(r.user.id)
     IN IF ~BcryptCompare(r.password, r.digest)
        THEN /\ last' = Reply(LoginRoute, 401, "Unauthorized",
                              "Invalid email or password")
             /\ UNCHANGED issued
        ELSE /\ issued' = issued \cup {[userId |-> r.user.id, at |-> now, token |-> token]}
             /\ last' = [Reply(LoginRoute, 200, "", "Login successful")
                           EXCEPT !.user = UserToJSON(r.user), !.token = token]
  /\ inflight' = [inflight EXCEPT ![s] = Idle]
  /\ UNCHANGED <<client, users, todos, invalidatedTokens, now, ticks, nextId>>

(***************************************************************************)
(* POST /api/auth/logout (behind the session guard).                       *)
(***************************************************************************)
LogoutRoute == "POST /api/auth/logout"

Logout(header) ==
  LET g == Guarded(LogoutRoute, header)
  IN /\ IF ~g.next
        THEN /\ last' = g
             /\ UNCHANGED invalidatedTokens
        ELSE /\ invalidatedTokens' = invalidate(g.reqToken)
             /\ last' = [g EXCEPT !.handled = TRUE, !.status = 200,
                                  !.message = "Logout successful"]
     /\ UNCHANGED <<client, users, todos, now, ticks, nextId, issued, inflight>>

(***************************************************************************)
(* User profile routes (routes/users), behind the session guard.           *)
(***************************************************************************)
ProfileRoute == "GET /api/users/profile"

UpdateProfileRoute == "PUT /api/users/profile"

DeleteAccountRoute == "DELETE /api/users/profile"

\* A handler waiting on an await holds a reference to the User object, so
\* it sees what userDB.update does to that object in the meantime.
RefsAfterUpdate(id, updates) ==
  [s \in Slots |->
     IF inflight[s].user.id = id /\ userFindById(id) # NoUser
     THEN [inflight[s] EXCEPT !.user = UserUpdate(@, updates)]
     ELSE inflight[s]]

GetProfile(header) ==
  LET g == Guarded(ProfileRoute, header)
  IN /\ last' = IF ~g.next THEN g
                ELSE [g EXCEPT !.handled = TRUE, !.status = 200,
                               !.user = UserToJSON(g.reqUser)]
     /\ UNCHANGED <<client, users, todos, invalidatedTokens, now, ticks, nextId,
                    issued, inflight>>

UpdateProfile(header, name, email) ==
  LET g == Guarded(UpdateProfileRoute, header)
      updates == [name |-> name, email |-> email, phone |-> Undefined,
                  address |-> Undefined, password |-> NoDigest]
  IN /\ IF ~g.next
        THEN /\ last' = g
             /\ UNCHANGED <<users, inflight>>
        ELSE IF /\ email # Undefined
                /\ email # g.reqUser.email
                /\ userFindByEmail(email) # NoUser
        THEN /\ last' = [g EXCEPT !.handled = TRUE, !.status = 409,
                                  !.error = "Conflict",
                                  !.message = "Email is already in use"]
             /\ UNCHANGED <<users, inflight>>
        ELSE /\ users' = userUpdate(g.reqUser.id, updates)
             /\ inflight' = RefsAfterUpdate(g.reqUser.id, updates)
             /\ last' = [g EXCEPT !.handled = TRUE, !.status = 200,
                                  !.message = "Profile updated successfully",
                                  !.user = UserToJSON(UserUpdate(g.reqUser, updates))]
     /\ UNCHANGED <<client, todos, invalidatedTokens, now, ticks, nextId, issued>>

\* PUT /api/users/profile carrying currentPassword and newPassword: the
\* current password is verified against the stored hash (an await), then
\* the new hash and the other fields go into one userDB.update call.
ChangePasswordStart(s, header, name, currentPassword, newPassword) ==
  LET g == Guarded(UpdateProfileRoute, header)
  IN /\ FreeSlot(s)
     /\ IF ~g.next
        THEN /\ last' = g
             /\ UNCHANGED inflight
        ELSE IF Falsy(currentPassword)
        THEN /\ last' = [g EXCEPT !.handled = TRUE, !.status = 400,
                                  !.error = "Bad Request",
                                  !.message = "Current password is required to set a new password"]
             /\ UNCHANGED inflight
        ELSE IF Len(newPassword) < MinPasswordLength
        THEN /\ last' = [g EXCEPT !.handled = TRUE, !.status = 400,
                                  !.error = "Bad Request",
                                  !.message = "New password must be at least 8 characters long"]
             /\ UNCHANGED inflight
        ELSE /\ inflight' = [inflight EXCEPT ![s] =
                   [Idle EXCEPT !.op = "password", !.password = currentPassword,
                                !.newPassword = newPassword, !.name = name,
                                !.user = g.reqUser,
                                !.digest = g.reqUser.password]]
             /\ last' = [g EXCEPT !.handled = TRUE]
     /\ UNCHANGED <<client, users, todos, invalidatedTokens, now, ticks, nextId, issued>>

ChangePasswordFinish(s) ==
  /\ inflight[s].op = "password"
  /\ LET r == inflight[s]
         updates == [name |-> r.name, email |-> Undefined, phone |-> Undefined,
                     address |-> Undefined,
                     password |-> BcryptHash(r.newPassword)]
     IN IF ~BcryptCompare(r.password, r.digest)
        THEN /\ last' = Reply(UpdateProfileRoute, 401, "Unauthorized",
                              "Current password is incorrect")
             /\ UNCHANGED users
             /\ inflight' = [inflight EXCEPT ![s] = Idle]
        ELSE /\ users' = userUpdate(r.user.id, updates)
             /\ inflight' = [RefsAfterUpdate(r.user.id, updates) EXCEPT ![s] = Idle]
             /\ last' = [Reply(UpdateProfileRoute, 200, "",
                               "Profile updated successfully")
                           EXCEPT !.user = UserToJSON(UserUpdate(r.user, updates))]
  /\ UNCHANGED <<client, todos, invalidatedTokens, now, ticks, nextId, issued>>

DeleteAccountStart(s, header, password) ==
  LET g == Guarded(DeleteAccountRoute, header)
  IN /\ FreeSlot(s)
     /\ IF ~g.next
        THEN /\ last' = g
             /\ UNCHANGED inflight
        ELSE IF Falsy(password)
        THEN /\ last' = [g EXCEPT !.handled = TRUE, !.status = 400,
                                  !.error = "Bad Request",
                                  !.message = "Password is required to delete account"]
             /\ UNCHANGED inflight
        ELSE /\ inflight' = [inflight EXCEPT ![s] =
                   [Idle EXCEPT !.op = "delete", !.password = password,
                                !.user = g.reqUser,
                                !.digest = g.reqUser.password]]
             /\ last' = [g EXCEPT !.handled = TRUE]
     /\ UNCHANGED <<client, users, todos, invalidatedTokens, now, ticks, nextId, issued>>

\* After the password check: the cascade (the user's todos first, then the
\* user record), in one synchronous stretch.
DeleteAccountFinish(s) ==
  /\ inflight[s].op = "delete"
  /\ LET r == inflight[s]
     IN IF ~BcryptCompare(r.password, r.digest)
        THEN /\ last' = Reply(DeleteAccountRoute, 401, "Unauthorized",
                              "Invalid password")
             /\ UNCHANGED <<users, todos>>
        ELSE /\ todos' = todoDeleteByUserId(r.user.id)
             /\ users' = userDelete(r.user.id)
             /\ last' = Reply(DeleteAccountRoute, 200, "",
                              "Account deleted successfully")
  /\ inflight' = [inflight EXCEPT ![s] = Idle]
  /\ UNCHANGED <<client, invalidatedTokens, now, ticks, nextId, issued>>

(***************************************************************************)
(* Todo routes (routes/todos), all behind the session guard.  Each route   *)
(* is an operator from the request to the response and the collection the  *)
(* handler leaves, and an action that applies it.                          *)
(***************************************************************************)
ListTodosRoute == "GET /api/todos"

CreateTodoRoute == "POST /api/todos"

GetTodoRoute == "GET /api/todos/:id"

UpdateTodoRoute == "PUT /api/todos/:id"

DeleteTodoRoute == "DELETE /api/todos/:id"

Statuses == {"pending", "in-progress", "completed"}

Priorities == {"low", "medium", "high"}

\* parseInt on the query strings the model sends.
ParseInt(str) ==
  CASE str = "-2" -> 0 - 2
    [] str = "-1" -> 0 - 1
    [] str = "0" -> 0
    [] str = "1" -> 1
    [] str = "2" -> 2
    [] str = "3" -> 3
    [] str = "4" -> 4
    [] str = "5" -> 5
    [] str = "10" -> 10
    [] str = "100" -> 100
    [] str = "101" -> 101

Min(a, b) == IF a < b THEN a ELSE b

Max(a, b) == IF a > b THEN a ELSE b

\* Math.ceil(a / b) for a >= 0 and b # 0.
CeilDiv(a, b) ==
  IF b > 0 THEN (a + b - 1) \div b ELSE 0 - (a \div (0 - b))

\* slice taking the element at `end` as well.
JsSliceInclusive(s, start, end) ==
  LET n == Len(s)
      from == IF start < 0 THEN (IF n + start > 0 THEN n + start ELSE 0)
              ELSE (IF start < n THEN start ELSE n)
      to == IF end < 0 THEN (IF n + end > 0 THEN n + end ELSE 0)
            ELSE (IF end + 1 < n THEN end + 1 ELSE n)
  IN IF from >= to THEN <<>> ELSE SubSeq(s, from + 1, to)

\* Array.prototype.slice(start, end): a negative index counts from the end,
\* and both are clamped to the array.  Indices are 0-based as in the code.
JsSlice(s, start, end) ==
  LET n == Len(s)
      from == IF start < 0 THEN Max(n + start, 0) ELSE Min(start, n)
      to == IF end < 0 THEN Max(n + end, 0) ELSE Min(end, n)
  IN IF from >= to THEN <<>> ELSE SubSeq(s, from + 1, to)

MapToJSON(s) == [i \in 1..Len(s) |-> TodoToJSON(s[i])]

Query(status, priority, page, limit) ==
  [status |-> status, priority |-> priority, page |-> page, limit |-> limit]

Body(title, description, status, priority, dueDate) ==
  [title |-> title, description |-> description, status |-> status,
   priority |-> priority, dueDate |-> dueDate]

ListTodosResponse(header, query) ==
  LET g == Guarded(ListTodosRoute, header)
      userId == g.reqUser.id
      filters == [status |-> IF ~Falsy(query.status) THEN query.status ELSE Undefined,
                  priority |-> IF ~Falsy(query.priority) THEN query.priority ELSE Undefined]
      found == todoFindByUserId(userId, filters)
      totalItems == Len(found)
      pageNum == IF query.page = Undefined THEN DefaultPage ELSE ParseInt(query.page)
      limitNum == Min(IF query.limit = Undefined THEN DefaultLimit
                      ELSE ParseInt(query.limit), MaxLimit)
      totalPages == CeilDiv(totalItems, limitNum)
      startIndex == (pageNum - 1) * limitNum
      endIndex == startIndex + limitNum
      paginatedTodos == JsSlice(found, startIndex, endIndex)
  IN IF ~g.next THEN g
     ELSE [g EXCEPT !.handled = TRUE, !.status = 200,
                    !.todos = MapToJSON(paginatedTodos),
                    !.pagination = [currentPage |-> pageNum,
                                    totalPages |-> totalPages,
                                    totalItems |-> totalItems,
                                    itemsPerPage |-> limitNum]]

ListTodos(header, query) ==
  /\ last' = ListTodosResponse(header, query)
  /\ UNCHANGED <<client, users, todos, invalidatedTokens, now, ticks, nextId,
                 issued, inflight>>

BadRequest(g, message) ==
  [g EXCEPT !.handled = TRUE, !.status = 400, !.error = "Bad Request",
            !.message = message]

InvalidStatusMessage ==
  "Invalid status. Must be one of: pending, in-progress, completed"

InvalidPriorityMessage ==
  "Invalid priority. Must be one of: low, medium, high"

\* POST / taking the owner from the request body when the body names one.
CreateTodoResultTrustingBody(header, body) ==
  LET g == Guarded(CreateTodoRoute, header)
      owner == IF "userId" \in DOMAIN body THEN body.userId ELSE g.reqUser.id
      newTodo == NewTodo(nextId, owner, body.title, body.description,
                         body.status, body.priority, body.dueDate)
  IN IF ~g.next
     THEN [resp |-> g, todos |-> todos]
     ELSE IF Falsy(body.title)
     THEN [resp |-> BadRequest(g, "Title is required"), todos |-> todos]
     ELSE IF ~Falsy(body.status) /\ body.status \notin Statuses
     THEN [resp |-> BadRequest(g, InvalidStatusMessage), todos |-> todos]
     ELSE IF ~Falsy(body.priority) /\ body.priority \notin Priorities
     THEN [resp |-> BadRequest(g, InvalidPriorityMessage), todos |-> todos]
     ELSE [resp |-> [g EXCEPT !.handled = TRUE, !.status = 201,
                              !.message = "Todo created successfully",
                              !.todoId = newTodo.id,
                              !.todos = <<TodoToJSON(newTodo)>>],
           todos |-> todoCreate(newTodo)]

CreateTodoResult(header, body) ==
  LET g == Guarded(CreateTodoRoute, header)
      newTodo == NewTodo(nextId, g.reqUser.id, body.title, body.description,
                         body.status, body.priority, body.dueDate)
  IN IF ~g.next
     THEN [resp |-> g, todos |-> todos]
     ELSE IF Falsy(body.title)
     THEN [resp |-> BadRequest(g, "Title is required"), todos |-> todos]
     ELSE IF ~Falsy(body.status) /\ body.status \notin Statuses
     THEN [resp |-> BadRequest(g, InvalidStatusMessage), todos |-> todos]
     ELSE IF ~Falsy(body.priority) /\ body.priority \notin Priorities
     THEN [resp |-> BadRequest(g, InvalidPriorityMessage), todos |-> todos]
     ELSE [resp |-> [g EXCEPT !.handled = TRUE, !.status = 201,
                              !.message = "Todo created successfully",
                              !.todoId = newTodo.id,
                              !.todos = <<TodoToJSON(newTodo)>>],
           todos |-> todoCreate(newTodo)]

CreateTodo(header, body) ==
  LET r == CreateTodoResult(header, body)
  IN /\ Len(todos) < MaxTodos
     /\ nextId <= MaxIds + MaxTodos
     /\ todos' = r.todos
     /\ nextId' = IF r.resp.status = 201 THEN nextId + 1 ELSE nextId
     /\ last' = r.resp
     /\ UNCHANGED <<client, users, invalidatedTokens, now, ticks, issued, inflight>>

NotFound(g, id) ==
  [g EXCEPT !.handled = TRUE, !.status = 404, !.error = "Not Found",
            !.message = "The requested resource was not found",
            !.todoId = id]

\* GET /:id answering 403 for a todo of another user.
GetTodoResponseForbidden(header, id) ==
  LET g == Guarded(GetTodoRoute, header)
      todo == todoFindById(id)
  IN IF ~g.next THEN g
     ELSE IF todo = NoTodo THEN NotFound(g, id)
     ELSE IF todo.userId # g.reqUser.id
     THEN [g EXCEPT !.handled = TRUE, !.status = 403, !.error = "Forbidden",
                    !.message = "You do not have access to this resource",
                    !.todoId = id]
     ELSE [g EXCEPT !.handled = TRUE, !.status = 200, !.todoId = id,
                    !.todos = <<TodoToJSON(todo)>>]

GetTodoResponse(header, id) ==
  LET g == Guarded(GetTodoRoute, header)
      todo == todoFindById(id)
  IN IF ~g.next THEN g
     ELSE IF todo = NoTodo THEN NotFound(g, id)
     ELSE IF todo.userId # g.reqUser.id THEN NotFound(g, id)
     ELSE [g EXCEPT !.handled = TRUE, !.status = 200, !.todoId = id,
                    !.todos = <<TodoToJSON(todo)>>]

GetTodo(header, id) ==
  /\ last' = GetTodoResponse(header, id)
  /\ UNCHANGED <<client, users, todos, invalidatedTokens, now, ticks, nextId,
                 issued, inflight>>

UpdateTodoResult(header, id, body) ==
  LET g == Guarded(UpdateTodoRoute, header)
      todo == todoFindById(id)
      updates == Body(body.title, body.description, body.status,
                      body.priority, body.dueDate)
  IN IF ~g.next
     THEN [resp |-> g, todos |-> todos]
     ELSE IF todo = NoTodo
     THEN [resp |-> NotFound(g, id), todos |-> todos]
     ELSE IF todo.userId # g.reqUser.id
     THEN [resp |-> NotFound(g, id), todos |-> todos]
     ELSE IF ~Falsy(body.status) /\ body.status \notin Statuses
     THEN [resp |-> [BadRequest(g, InvalidStatusMessage) EXCEPT !.todoId = id],
           todos |-> todos]
     ELSE IF ~Falsy(body.priority) /\ body.priority \notin Priorities
     THEN [resp |-> [BadRequest(g, InvalidPriorityMessage) EXCEPT !.todoId = id],
           todos |-> todos]
     ELSE [resp |-> [g EXCEPT !.handled = TRUE, !.status = 200,
                              !.message = "Todo updated successfully",
                              !.todoId = id,
                              !.todos = <<TodoToJSON(TodoUpdate(todo, updates))>>],
           todos |-> todoUpdate(id, updates)]

UpdateTodo(header, id, body) ==
  LET r == UpdateTodoResult(header, id, body)
  IN /\ todos' = r.todos
     /\ last' = r.resp
     /\ UNCHANGED <<client, users, invalidatedTokens, now, ticks, nextId, issued,
                    inflight>>

\* DELETE /:id without the ownership check.
DeleteTodoResultAnyOwner(header, id) ==
  LET g == Guarded(DeleteTodoRoute, header)
      todo == todoFindById(id)
  IN IF ~g.next
     THEN [resp |-> g, todos |-> todos]
     ELSE IF todo = NoTodo
     THEN [resp |-> NotFound(g, id), todos |-> todos]
     ELSE [resp |-> [g EXCEPT !.handled = TRUE, !.status = 200,
                              !.todoId = id,
                              !.message = "Todo deleted successfully"],
           todos |-> todoDelete(id)]

DeleteTodoResult(header, id) ==
  LET g == Guarded(DeleteTodoRoute, header)
      todo == todoFindById(id)
  IN IF ~g.next
     THEN [resp |-> g, todos |-> todos]
     ELSE IF todo = NoTodo
     THEN [resp |-> NotFound(g, id), todos |-> todos]
     ELSE IF todo.userId # g.reqUser.id
     THEN [resp |-> NotFound(g, id), todos |-> todos]
     ELSE [resp |-> [g EXCEPT !.handled = TRUE, !.status = 200,
                              !.todoId = id,
                              !.message = "Todo deleted successfully"],
           todos |-> todoDelete(id)]

DeleteTodo(header, id) ==
  LET r == DeleteTodoResult(header, id)
  IN /\ todos' = r.todos
     /\ last' = r.resp
     /\ UNCHANGED <<client, users, invalidatedTokens, now, ticks, nextId, issued,
                    inflight>>

(***************************************************************************)
(* Accounts from the service's start: registration, login, profile update  *)
(* and account deletion, with their awaits interleaved.                    *)
(***************************************************************************)
Next ==
  \/ \E s \in Slots, email \in Emails \cup {Undefined}, password \in Passwords,
        name \in Names : RegisterStart(s, email, password, name)
  \/ \E s \in Slots : RegisterFinish(s)
  \/ \E s \in Slots, email \in Emails \cup {Undefined}, password \in Passwords :
        LoginStart(s, email, password)
  \/ \E s \in Slots : LoginFinish(s)
  \/ \E header \in ClientHeaders, name \in NewNames \cup {Undefined},
        email \in Emails \cup {Undefined} : UpdateProfile(header, name, email)
  \/ \E s \in Slots, header \in ClientHeaders,
        password \in Passwords \cup {Undefined} :
        DeleteAccountStart(s, header, password)
  \/ \E s \in Slots : DeleteAccountFinish(s)

Spec == Init /\ [][Next]_vars

(***************************************************************************)
(* Two registered users, each holding the token its registration returned: *)
(* the state Spec reaches by registering alice and then bob.               *)
(***************************************************************************)
Alice == NewUserAt(1, "Alice", "alice@example.com", BcryptHash("password123"), 0)

Bob == NewUserAt(2, "Alice", "bob@example.com", BcryptHash("password123"), 0)

TokenAt(userId, at) ==
  [userId |-> userId, iat |-> at, exp |-> at + TokenTTL, sig |-> "HS256"]

InitRegistered ==
  /\ users = <<Alice, Bob>>
  /\ todos = <<>>
  /\ invalidatedTokens = {}
  /\ now = 0
  /\ ticks = 0
  /\ nextId = 3
  /\ issued = {[userId |-> 1, at |-> 0, token |-> TokenAt(1, 0)],
               [userId |-> 2, at |-> 0, token |-> TokenAt(2, 0)]}
  /\ inflight = [s \in Slots |-> Idle]
  /\ last = Blank
  /\ client = NoClient

(***************************************************************************)
(* Sessions: tokens are issued, age, are revoked and outlive accounts.     *)
(***************************************************************************)
NextSession ==
  \/ \E d \in TickSteps : Tick(d)
  \/ \E s \in Slots, email \in Emails, password \in Passwords :
        LoginStart(s, email, password)
  \/ \E s \in Slots : LoginFinish(s)
  \/ \E header \in Headers : Logout(header)
  \/ \E header \in Headers : GetProfile(header)
  \/ \E s \in Slots, header \in ClientHeaders, password \in Passwords :
        DeleteAccountStart(s, header, password)
  \/ \E s \in Slots : DeleteAccountFinish(s)

SpecSession == InitRegistered /\ [][NextSession]_vars

(***************************************************************************)
(* Todos of two users.                                                     *)
(***************************************************************************)
TodoIds == MaxIds..(MaxIds + MaxTodos)

OwnershipQueries ==
  { Query(Undefined, Undefined, Undefined, Undefined),
    Query("completed", "high", "1", "1") }

OwnershipBodies ==
  { Body("Buy milk", Undefined, Undefined, Undefined, Undefined),
    Body("Buy milk", Undefined, "completed", "high", Undefined),
    Body("Buy milk", Undefined, "done", Undefined, Undefined) }

NextTodos ==
  \/ Tick(1)
  \/ \E header \in ClientHeaders, query \in OwnershipQueries :
        ListTodos(header, query)
  \/ \E header \in ClientHeaders, body \in OwnershipBodies :
        CreateTodo(header, body)
  \/ \E header \in ClientHeaders, id \in TodoIds : GetTodo(header, id)
  \/ \E header \in ClientHeaders, id \in TodoIds, body \in OwnershipBodies :
        UpdateTodo(header, id, body)
  \/ \E header \in ClientHeaders, id \in TodoIds : DeleteTodo(header, id)

SpecTodos == InitRegistered /\ [][NextTodos]_vars

(***************************************************************************)
(* Collections that earlier POST /api/todos requests of the two users have *)
(* built: todos 3, 4, ... in creation order, each of alice or bob, each    *)
(* either as created by default or created completed with high priority.   *)
(***************************************************************************)
TodoAt(id, userId, status, priority, at) ==
  [id |-> id, userId |-> userId, title |-> "Buy milk", description |-> "",
   status |-> status, priority |-> priority, dueDate |-> Null,
   createdAt |-> at, updatedAt |-> at]

SeedKinds ==
  {[userId |-> u, status |-> "pending", priority |-> "medium"] : u \in {Alice.id, Bob.id}}
    \cup {[userId |-> u, status |-> "completed", priority |-> "high"] : u \in {Alice.id, Bob.id}}

SeededTodos ==
  UNION {{[i \in 1..n |-> TodoAt(Bob.id + i, f[i].userId, f[i].status, f[i].priority, 0)] :
            f \in [1..n -> SeedKinds]} : n \in 0..MaxSeeded}

InitSeeded ==
  /\ users = <<Alice, Bob>>
  /\ todos \in SeededTodos
  /\ invalidatedTokens = {}
  /\ now = 0
  /\ ticks = 0
  /\ nextId = Bob.id + Len(todos) + 1
  /\ issued = {[userId |-> 1, at |-> 0, token |-> TokenAt(1, 0)],
               [userId |-> 2, at |-> 0, token |-> TokenAt(2, 0)]}
  /\ inflight = [s \in Slots |-> Idle]
  /\ last = Blank
  /\ client = NoClient

(***************************************************************************)
(* Account deletion while both users hold todos and keep creating them.    *)
(***************************************************************************)
CascadeBodies == {Body("Buy milk", Undefined, Undefined, Undefined, Undefined)}

CascadeQueries == {Query(Undefined, Undefined, Undefined, Undefined)}

NextCascade ==
  \/ \E header \in ClientHeaders, body \in CascadeBodies :
        CreateTodo(header, body)
  \/ \E header \in ClientHeaders, query \in CascadeQueries :
        ListTodos(header, query)
  \/ \E s \in Slots, header \in ClientHeaders, password \in Passwords :
        DeleteAccountStart(s, header, password)
  \/ \E s \in Slots : DeleteAccountFinish(s)

SpecCascade == InitSeeded /\ [][NextCascade]_vars

(***************************************************************************)
(* Paging through the todos the two users hold.                            *)
(***************************************************************************)
PageQueries ==
  {Query(status, Undefined, page, limit) :
     status \in {Undefined, "completed"},
     page \in {Undefined, "-1", "2"},
     limit \in {"-1", "1"}}

NextPages ==
  \E header \in ClientHeaders, query \in PageQueries : ListTodos(header, query)

SpecPages == InitSeeded /\ [][NextPages]_vars

(***************************************************************************)
(* Todos written with every kind of field value a JSON body can carry: a   *)
(* valid value, an unknown string, the empty string, null, or nothing.     *)
(***************************************************************************)
FieldBodies ==
  { Body("Buy milk", Undefined, Undefined, Undefined, Undefined),
    Body("Buy milk", Undefined, "completed", "high", Undefined),
    Body("Buy milk", Undefined, "done", Undefined, Undefined),
    Body(Undefined, Undefined, Undefined, "urgent", Undefined),
    Body(Undefined, Undefined, "", Undefined, Undefined),
    Body(Undefined, Undefined, Null, Undefined, Undefined),
    Body(Undefined, Undefined, Undefined, "", Undefined),
    Body("", Undefined, Undefined, Undefined, Undefined),
    Body(Null, Undefined, Undefined, Undefined, Undefined) }

NextFields ==
  \/ \E header \in ClientHeaders, body \in FieldBodies :
        CreateTodo(header, body)
  \/ \E header \in ClientHeaders, id \in TodoIds, body \in FieldBodies :
        UpdateTodo(header, id, body)

SpecFields == InitRegistered /\ [][NextFields]_vars

(***************************************************************************)
(* Profiles: name and password changes of the two users.                   *)
(***************************************************************************)
NewPasswords == {"pass456", "password456"}

NextProfile ==
  \/ \E header \in ClientHeaders : GetProfile(header)
  \/ \E header \in ClientHeaders, name \in NewNames :
        UpdateProfile(header, name, Undefined)
  \/ \E s \in Slots, header \in ClientHeaders, name \in NewNames \cup {Undefined},
        currentPassword \in Passwords \cup {Undefined},
        newPassword \in NewPasswords :
        ChangePasswordStart(s, header, name, currentPassword, newPassword)
  \/ \E s \in Slots : ChangePasswordFinish(s)

SpecProfile == InitRegistered /\ [][NextProfile]_vars

(***************************************************************************)
(* Updates of stored users and todos as the clock advances.                *)
(***************************************************************************)
\* Alice and Bob hold one todo each; the third id is nobody's.
InitUpdates ==
  /\ InitSeeded
  /\ todos = <<TodoAt(Bob.id + 1, Alice.id, "pending", "medium", 0),
               TodoAt(Bob.id + 2, Bob.id, "completed", "high", 0)>>

SeededIds == (Bob.id + 1)..(Bob.id + 3)

UpdateBodies ==
  { Body("Walk dog", Undefined, Undefined, Undefined, Undefined),
    Body(Undefined, "twice", "completed", Undefined, "2030-01-01") }

NextUpdates ==
  \/ Tick(1)
  \/ \E header \in ClientHeaders, name \in NewNames :
        UpdateProfile(header, name, Undefined)
  \/ \E header \in ClientHeaders, id \in SeededIds, body \in UpdateBodies :
        UpdateTodo(header, id, body)

SpecUpdates == InitUpdates /\ [][NextUpdates]_vars

(***************************************************************************)
(* The browser client: signing in and logging out (context/AuthContext,    *)
(* services/api).                                                          *)
(***************************************************************************)
\* The request interceptor: `Bearer <token>` when localStorage has a token.
RequestHeader(c) ==
  IF c.token # NoToken THEN Bearer(c.token) ELSE NoHeader

\* The response interceptor: a 401 clears localStorage and goes to /login.
ResponseInterceptor(c, response) ==
  IF response.status = 401
  THEN [c EXCEPT !.token = NoToken, !.storedUser = NoUserJSON,
                 !.location = "/login"]
  ELSE c

\* logout's finally block skipped.
LogoutFinallySkipped(c) == c

\* logout's finally block.
LogoutFinally(c) ==
  [c EXCEPT !.token = NoToken, !.storedUser = NoUserJSON, !.user = NoUserJSON]

\* login(): the token and the user of a successful login response are
\* stored and the user is set.
ClientSignIn ==
  /\ client.phase = "idle"
  /\ last.route = LoginRoute
  /\ last.status = 200
  /\ client' = [client EXCEPT !.token = last.token, !.storedUser = last.user,
                              !.user = last.user]
  /\ last' = Blank
  /\ UNCHANGED <<users, todos, invalidatedTokens, now, ticks, nextId, issued,
                 inflight>>

\* logout(): the call to POST /api/auth/logout is sent.
ClientLogoutSend ==
  /\ client.phase = "idle"
  /\ client' = [client EXCEPT !.phase = "logout"]
  /\ last' = Blank
  /\ UNCHANGED <<users, todos, invalidatedTokens, now, ticks, nextId, issued,
                 inflight>>

\* The server handles the client's logout call.
ServeLogout ==
  /\ client.phase = "logout"
  /\ last = Blank
  /\ Logout(RequestHeader(client))

\* logout() after the await: the call has been answered, or it failed
\* without an answer; the catch block only logs.
ClientLogoutSettle(failed) ==
  /\ client.phase = "logout"
  /\ IF failed THEN last = Blank ELSE last.route = LogoutRoute
  /\ client' = [LogoutFinally(ResponseInterceptor(client, last))
                  EXCEPT !.phase = "idle"]
  /\ UNCHANGED <<users, todos, invalidatedTokens, now, ticks, nextId, issued,
                 inflight, last>>

NextClient ==
  \/ \E d \in TickSteps : Tick(d)
  \/ \E s \in Slots, email \in Emails, password \in Passwords :
        LoginStart(s, email, password)
  \/ \E s \in Slots : LoginFinish(s)
  \/ ClientSignIn
  \/ ClientLogoutSend
  \/ ServeLogout
  \/ \E failed \in BOOLEAN : ClientLogoutSettle(failed)

SpecClient == InitRegistered /\ [][NextClient]_vars

(***************************************************************************)
(* Properties.                                                             *)
(***************************************************************************)
StoredUsers == Range(users)

Stored(id) == \E u \in StoredUsers : u.id = id

InvalidatedMessage == "Token has been invalidated. Please login again."

ProtectedRoutes ==
  {LogoutRoute, ProfileRoute, UpdateProfileRoute, DeleteAccountRoute,
   ListTodosRoute, CreateTodoRoute, GetTodoRoute, UpdateTodoRoute,
   DeleteTodoRoute}

\* C1: at most one stored User has any given email, in every reachable
\* state, whatever the interleaving of registrations and profile updates.
C1_OneUserPerEmail ==
  \A i, j \in 1..Len(users) : users[i].email = users[j].email => i = j

\* The conditions under which the session guard is to let a request through.
Admissible(header) ==
  /\ header.scheme = "Bearer"
  /\ header.token \notin invalidatedTokens
  /\ header.token.sig = "HS256"
  /\ now < header.token.exp
  /\ Stored(header.token.userId)

\* C2: the guard calls next() only for a `Bearer <token>` header whose token
\* is not revoked, is validly signed and unexpired, and names a stored User;
\* it then attaches exactly that stored User and exactly that token; and a
\* route handler runs only for a request the guard has let through so.
C2_GuardAdmitsOnlyValidSessions ==
  /\ [](\A header \in Headers :
          LET a == authenticate(header)
          IN /\ a.next <=> Admissible(header)
             /\ a.next => /\ a.token = header.token
                          /\ a.user \in StoredUsers
                          /\ a.user.id = header.token.userId)
  /\ [][last'.handled =>
          /\ last'.next
          /\ \E header \in Headers :
               /\ Admissible(header)
               /\ last'.reqToken = header.token
               /\ last'.reqUser \in StoredUsers
               /\ last'.reqUser.id = header.token.userId]_vars

C2_Witness ==
  /\ last.route = ProfileRoute
  /\ last.next
  /\ last.handled
  /\ last.status = 200
  /\ last.reqUser \in StoredUsers

\* C3: a revoked token is rejected with 401 `invalidated` and next() is not
\* called, whether or not the token has expired meanwhile; jwt.verify does
\* not look at the revoked set, so a revoked, unexpired, validly signed
\* token still resolves to its userId.
C3_RevokedIsRejectedBeforeResolve ==
  \A token \in invalidatedTokens :
    LET a == authenticate(Bearer(token))
    IN /\ ~a.next
       /\ a.status = 401
       /\ a.message = InvalidatedMessage
       /\ (token.sig = "HS256" /\ now < token.exp) =>
            (JwtVerify(token).ok /\ JwtVerify(token).userId = token.userId)
       /\ (token.sig = "HS256" /\ now >= token.exp) =>
            JwtVerify(token).error = "TokenExpiredError"

C3_Witness ==
  /\ last.status = 401
  /\ last.message = InvalidatedMessage
  /\ ~last.next
  /\ \E token \in invalidatedTokens : now >= token.exp
  /\ \E token \in invalidatedTokens : now < token.exp

\* C4: a token revoked by logout stays in the revoked set in every later
\* state, and from then on every protected route rejects it with 401
\* without running its handler.
C4_RevocationIsPermanent ==
  /\ [][/\ invalidatedTokens \subseteq invalidatedTokens'
        /\ (last'.route = LogoutRoute /\ last'.status = 200) =>
              last'.reqToken \in invalidatedTokens'
        /\ (last'.handled /\ last'.route \in ProtectedRoutes) =>
              last'.reqToken \notin invalidatedTokens]_vars
  /\ [](\A token \in invalidatedTokens, route \in ProtectedRoutes :
          LET g == Guarded(route, Bearer(token))
          IN g.status = 401 /\ ~g.next /\ ~g.handled)

C4_Witness ==
  /\ Cardinality(invalidatedTokens) >= 2
  /\ last.route = ProfileRoute
  /\ last.status = 401
  /\ last.message = InvalidatedMessage

\* C5: a validly signed, unexpired, non-revoked token whose user is no
\* longer stored is rejected with 401 `User not found`, and next() is not
\* called.
C5_DeletedUserTokenRejected ==
  \A token \in IssuedTokens :
    (token \notin invalidatedTokens /\ now < token.exp /\ ~Stored(token.userId))
      => LET a == authenticate(Bearer(token))
         IN ~a.next /\ a.status = 401 /\ a.message = "User not found"

C5_Witness ==
  /\ last.route = ProfileRoute
  /\ last.status = 401
  /\ last.message = "User not found"
  /\ ~last.next
  /\ Len(users) < 2

\* C6: for a token that is not revoked, the guard answers 401 `expired`
\* exactly when the signature verifies and the expiry has passed, 401
\* `invalid` exactly when the token is malformed or its signature does not
\* verify; neither case gives a 500 or calls next().
C6_ExpiredAndInvalidTold ==
  \A header \in Headers :
    (header.scheme = "Bearer" /\ header.token \notin invalidatedTokens) =>
      LET a == authenticate(header)
          token == header.token
      IN /\ (a.message = "Token has expired")
               <=> (token.sig = "HS256" /\ now >= token.exp)
         /\ (a.message = "Invalid token") <=> (token.sig # "HS256")
         /\ a.message \in {"Token has expired", "Invalid token"} =>
               (a.status = 401 /\ ~a.next)
         /\ a.status # 500

C6_Witness ==
  /\ last.route = ProfileRoute
  /\ last.status = 401
  /\ last.message = "Token has expired"
  /\ \E token \in IssuedTokens : now >= token.exp /\ token \notin invalidatedTokens

\* C7: a token issued for a userId resolves to that userId at any time
\* before its issuance + 24 hours, and fails with Expired at any time after.
C7_IssueResolveRoundTrip ==
  \A i \in issued :
    /\ now < i.at + TokenTTL =>
         (JwtVerify(i.token).ok /\ JwtVerify(i.token).userId = i.userId)
    /\ now > i.at + TokenTTL =>
         (~JwtVerify(i.token).ok /\ JwtVerify(i.token).error = "TokenExpiredError")

C7_Witness ==
  /\ \E i \in issued : now > i.at + TokenTTL
  /\ \E i \in issued : i.at > 0 /\ now < i.at + TokenTTL

(***************************************************************************)
(* Requests the todo properties range over.                                *)
(***************************************************************************)
AnyQueries ==
  {Query(status, priority, page, limit) :
     status \in {Undefined, "completed"}, priority \in {Undefined, "high"},
     page \in {Undefined, "-1", "0", "2"}, limit \in {Undefined, "1", "2"}}

AnyBodies ==
  OwnershipBodies \cup
    { Body(Undefined, Undefined, "completed", Undefined, Undefined),
      Body("", "none", Undefined, "high", Undefined),
      Body("Walk dog", "twice", Undefined, "urgent", "2026-01-01") }

\* An id no todo ever has.
AbsentTodoId == MaxIds + MaxTodos + 1

\* What the client receives: the status and the JSON body.
Sent(r) ==
  [status |-> r.status, error |-> r.error, message |-> r.message,
   todos |-> r.todos, pagination |-> r.pagination, user |-> r.user,
   token |-> r.token]

OwnedByAnother(id, userId) ==
  /\ todoFindById(id) # NoTodo
  /\ todoFindById(id).userId # userId

\* C8: GET /api/todos authenticated as A returns only todos whose userId is
\* A's id, for any filters, page and limit, whatever todos A and B hold.
C8_ListShowsOnlyOwnTodos ==
  \A header \in ClientHeaders, query \in AnyQueries :
    LET r == ListTodosResponse(header, query)
    IN r.status = 200 =>
         /\ header.scheme = "Bearer"
         /\ \A k \in 1..Len(r.todos) :
              /\ r.todos[k].userId = header.token.userId
              /\ \E t \in Range(todos) : TodoToJSON(t) = r.todos[k]

C8_Witness ==
  /\ last.route = ListTodosRoute
  /\ last.status = 200
  /\ Len(last.todos) > 0
  /\ \E t \in Range(todos) : t.userId # last.reqUser.id

\* C9: for GET, PUT and DELETE /api/todos/:id as A, the response for a todo
\* owned by B is the response for an id no todo has (404, same body), for
\* every request body; it is not 401/403 and carries no todo.
C9_OthersTodoLooksAbsent ==
  \A header \in ClientHeaders, id \in TodoIds, body \in AnyBodies :
    LET a == authenticate(header)
        get == GetTodoResponse(header, id)
        put == UpdateTodoResult(header, id, body).resp
        del == DeleteTodoResult(header, id).resp
    IN (a.next /\ OwnedByAnother(id, a.user.id)) =>
         /\ Sent(get) = Sent(GetTodoResponse(header, AbsentTodoId))
         /\ Sent(put) = Sent(UpdateTodoResult(header, AbsentTodoId, body).resp)
         /\ Sent(del) = Sent(DeleteTodoResult(header, AbsentTodoId).resp)
         /\ \A r \in {get, put, del} :
              /\ r.status = 404
              /\ r.error = "Not Found"
              /\ r.todos = <<>>

C9_Witness ==
  /\ last.route = UpdateTodoRoute
  /\ last.status = 404
  /\ last.next
  /\ OwnedByAnother(last.todoId, last.reqUser.id)

NotOwnedBy(s, userId) == SeqFilter(s, {t \in Range(s) : t.userId # userId})

\* C10: no todo request authenticated as A alters or removes a todo of
\* another user; a PUT or DELETE by A naming B's todo leaves the whole
\* collection as it was.
C10_OthersTodosUntouched ==
  [][(last'.next /\ last'.route \in {ListTodosRoute, CreateTodoRoute,
                                      GetTodoRoute, UpdateTodoRoute,
                                      DeleteTodoRoute}) =>
       /\ NotOwnedBy(todos', last'.reqUser.id) = NotOwnedBy(todos, last'.reqUser.id)
       /\ (/\ last'.route \in {UpdateTodoRoute, DeleteTodoRoute}
           /\ OwnedByAnother(last'.todoId, last'.reqUser.id)) => todos' = todos]_vars

C10_Witness ==
  /\ last.route = DeleteTodoRoute
  /\ last.status = 404
  /\ last.next
  /\ OwnedByAnother(last.todoId, last.reqUser.id)
  /\ \E t \in Range(todos) : t.id = last.todoId /\ t.updatedAt < now

(***************************************************************************)
(* Account deletion and its cascade.                                       *)
(***************************************************************************)
NoFilters == [status |-> Undefined, priority |-> Undefined]

OwnedBy(s, userId) == SeqFilter(s, {t \in Range(s) : t.userId = userId})

\* A step in which the deletion of the account held in slot s succeeds.
DeletionSucceeds(s) ==
  /\ inflight[s].op = "delete"
  /\ inflight'[s] = Idle
  /\ last'.route = DeleteAccountRoute
  /\ last'.status = 200

\* C11: when the deletion of A's account succeeds, no todo with userId = A
\* remains and findByUserId(A) is empty, the todos of every other user stay
\* as they were and in the same order, A's user record is gone, and
\* deleteByUserId's return value is the number of todos it removed.
C11_DeletionCascades ==
  [][\A s \in Slots : DeletionSucceeds(s) =>
       LET A == inflight[s].user.id
       IN /\ \A t \in Range(todos') : t.userId # A
          /\ todoFindByUserId(A, NoFilters)' = <<>>
          /\ todos' = NotOwnedBy(todos, A)
          /\ \A u \in {Alice.id, Bob.id} \ {A} :
                todoFindByUserId(u, NoFilters)' = todoFindByUserId(u, NoFilters)
          /\ userFindById(A)' = NoUser
          /\ todoDeleteByUserIdCount(A) = Len(OwnedBy(todos, A))
          /\ todoDeleteByUserIdCount(A) = Len(todos) - Len(todos')]_vars

\* A's account is deleted, A had todos, and bob's two todos are still there.
C11_Witness ==
  /\ last.route = DeleteAccountRoute
  /\ last.status = 200
  /\ userFindById(Alice.id) = NoUser
  /\ Len(todos) = 2
  /\ nextId = Bob.id + MaxSeeded + 1

\* C12: no stored todo ever belongs to a user that is not stored, however
\* POST /api/todos and account deletion of the same user interleave; a todo
\* A creates while A's deletion waits is removed by the cascade, and a POST
\* after the deletion is refused by the guard.
C12_NoOrphanTodos ==
  /\ [](\A t \in Range(todos) : Stored(t.userId))
  /\ [][\A s \in Slots : DeletionSucceeds(s) =>
          /\ \A t \in Range(todos') : t.userId # inflight[s].user.id
          /\ ~Stored(inflight[s].user.id)']_vars
  /\ [][(last'.route = CreateTodoRoute /\ last'.status = 201) =>
          /\ \E u \in Range(users') : u.id = last'.reqUser.id
          /\ todos'[Len(todos')].userId = last'.reqUser.id]_vars

\* A has created a todo while the deletion of A's account waits on the
\* password check it is going to pass.
C12_Witness ==
  /\ last.route = CreateTodoRoute
  /\ last.status = 201
  /\ \E s \in Slots :
       /\ inflight[s].op = "delete"
       /\ inflight[s].user.id = last.reqUser.id
       /\ BcryptCompare(inflight[s].password, inflight[s].digest)

(***************************************************************************)
(* The user repository's create, and registration and login.               *)
(***************************************************************************)
\* C13: userDB.create, given a User whose email a stored User already has,
\* leaves the user collection unchanged (it fails with Conflict); it
\* appends the User only when no stored User has that email.
C13_CreateRejectsDuplicateEmail ==
  \A email \in Emails :
    LET user == NewUser(nextId, "Alice", email, BcryptHash("password123"))
    IN IF userFindByEmail(email) # NoUser
       THEN userCreate(user) = users
       ELSE userCreate(user) = Append(users, user)

Registered(email) == \E u \in StoredUsers : u.email = email

\* C14: a registration whose password has fewer than 8 characters is
\* answered 400, and one with all fields, a long enough password and an
\* email a stored user has is answered 409; a registered email is always
\* refused; a refusal changes no user and issues no token.  Any other
\* registration adds exactly one User, carrying the submitted email, and
\* returns a token that resolves to the new User's id.
C14_RegisterRejectsOrAddsOne ==
  [][/\ \A s \in Slots, email \in Emails \cup {Undefined},
           password \in Passwords, name \in Names :
          RegisterStart(s, email, password, name) =>
            /\ users' = users
            /\ issued' = issued
            /\ last'.token = NoToken
            /\ (email # Undefined /\ Len(password) < 8) =>
                  /\ last'.status = 400
                  /\ last'.error = "Bad Request"
                  /\ inflight' = inflight
            /\ (Len(password) >= 8 /\ Registered(email)) =>
                  /\ last'.status = 409
                  /\ last'.error = "Conflict"
                  /\ inflight' = inflight
            /\ Registered(email) => last'.status \in {400, 409}
            /\ (email # Undefined /\ Len(password) >= 8 /\ ~Registered(email)) =>
                  /\ last'.status = 0
                  /\ inflight'[s].op = "register"
                  /\ inflight'[s].email = email
     /\ \A s \in Slots :
          RegisterFinish(s) =>
            /\ Len(users') = Len(users) + 1
            /\ SubSeq(users', 1, Len(users)) = users
            /\ users'[Len(users')].email = inflight[s].email
            /\ \A u \in StoredUsers : u.id # users'[Len(users')].id
            /\ last'.status = 201
            /\ last'.token.userId = users'[Len(users')].id
            /\ JwtVerify(last'.token).ok
            /\ JwtVerify(last'.token).userId = users'[Len(users')].id
            /\ issued' \ issued = {[userId |-> last'.token.userId, at |-> now,
                                     token |-> last'.token]}]_vars

\* A registration has just been refused because the email is taken, while
\* another registration is still waiting for its hash.
C14_Witness ==
  /\ last.route = RegisterRoute
  /\ last.status = 409
  /\ Len(users) = 1
  /\ \E s \in Slots : inflight[s].op = "register"

\* The one failure a login shows for a wrong email and for a wrong password.
LoginRefused(r) ==
  /\ r.route = LoginRoute
  /\ r.status = 401
  /\ r.error = "Unauthorized"
  /\ r.message = "Invalid email or password"
  /\ r.user = NoUserJSON
  /\ r.token = NoToken

\* C15: a login whose email matches no stored User and a login whose
\* password fails against the matched User's hash get the same 401
\* response and no token; a token is issued only when the email matched a
\* stored User u and the password verifies against u's hash, and the token
\* carries u's id.
C15_LoginFailuresAlike ==
  [][/\ \A s \in Slots, email \in Emails, password \in Passwords :
          LoginStart(s, email, password) =>
            /\ issued' = issued
            /\ last'.token = NoToken
            /\ ~Registered(email) => LoginRefused(last') /\ inflight' = inflight
            /\ Registered(email) =>
                  /\ last'.status = 0
                  /\ inflight'[s].op = "login"
                  /\ inflight'[s].user \in StoredUsers
                  /\ inflight'[s].user.email = email
                  /\ inflight'[s].password = password
     /\ \A s \in Slots :
          LoginFinish(s) =>
            LET u == inflight[s].user
                verifies == inflight[s].password = u.password[2]
            IN /\ ~verifies => /\ LoginRefused(last')
                               /\ issued' = issued
               /\ verifies => /\ last'.status = 200
                              /\ last'.token.userId = u.id
                              /\ last'.token.sig = "HS256"
                              /\ last'.user.id = u.id
                              /\ issued' = issued \cup
                                   {[userId |-> u.id, at |-> now, token |-> last'.token]}
     /\ (issued' # issued /\ last'.route = LoginRoute) =>
          \E s \in Slots :
            /\ inflight[s].op = "login"
            /\ inflight'[s] = Idle
            /\ inflight[s].user.password = BcryptHash(inflight[s].password)
            /\ \A i \in issued' \ issued : i.userId = inflight[s].user.id]_vars

\* A login for an email whose account has been deleted was just refused,
\* and the other account is still there.
C15_Witness ==
  /\ last.route = LoginRoute
  /\ LoginRefused(last)
  /\ Len(users) = 1
  /\ \A s \in Slots : inflight[s] = Idle

(***************************************************************************)
(* Pagination of GET /api/todos.                                           *)
(***************************************************************************)
StatusFilters == {Undefined, "completed"}

PageStrings == {"-2", "-1", "0", "1", "2", "3", "4", "5"}

\* The caller's filtered sequence, as the repository gives it.
Filtered(header, status) ==
  todoFindByUserId(authenticate(header).user.id,
                   [status |-> status, priority |-> Undefined])

PageNumber(page) == IF page = Undefined THEN 1 ELSE ParseInt(page)

LimitNumber(limit) == IF limit = Undefined THEN 10 ELSE ParseInt(limit)

\* C16: a page beyond the last one, page 0 and a negative page, with a
\* limit in 1..100, all get 200 and an empty todos list.
C16_OutOfRangePageIsEmpty ==
  \A header \in ClientHeaders, status \in StatusFilters,
     page \in PageStrings, limit \in {"1", "2", "10", "100"} :
    LET r == ListTodosResponse(header, Query(status, Undefined, page, limit))
        N == Len(Filtered(header, status))
        lastPage == CeilDiv(N, ParseInt(limit))
    IN (authenticate(header).next
          /\ (ParseInt(page) > lastPage \/ ParseInt(page) <= 0)) =>
         /\ r.status = 200
         /\ r.todos = <<>>

PageOf == <<"1", "2", "3", "4", "5">>

RECURSIVE PagesUpTo(_, _, _, _)
\* The todos lists of pages 1..k of the same listing, one after the other.
PagesUpTo(header, status, limit, k) ==
  IF k = 0 THEN <<>>
  ELSE PagesUpTo(header, status, limit, k - 1)
         \o ListTodosResponse(header, Query(status, Undefined, PageOf[k], limit)).todos

Ids(s) == {s[i].id : i \in 1..Len(s)}

\* C17: for a limit L in 1..100 and k >= 1, the lists of pages 1..k of one
\* listing, one after the other, are the first min(N, k*L) todos of the
\* caller's filtered sequence, in its order, and no todo occurs twice in
\* them (the pages are pairwise disjoint).
C17_PagesPartitionPrefix ==
  \A header \in ClientHeaders, status \in StatusFilters,
     limit \in {Undefined, "1", "2", "10", "100"}, k \in 1..Len(PageOf) :
    LET found == Filtered(header, status)
        L == LimitNumber(limit)
        pages == PagesUpTo(header, status, limit, k)
    IN authenticate(header).next =>
         /\ pages = MapToJSON(SubSeq(found, 1, Min(Len(found), k * L)))
         /\ Cardinality(Ids(pages)) = Len(pages)

\* The second page of a listing with limit 1 over three todos was served.
C17_Witness ==
  /\ last.route = ListTodosRoute
  /\ last.status = 200
  /\ last.pagination.currentPage = 2
  /\ last.pagination.itemsPerPage = 1
  /\ last.pagination.totalItems >= 3
  /\ Len(last.todos) = 1

\* The items of s at the 0-based indices lo, lo+1, ..., hi-1 that s has.
Window(s, lo, hi) ==
  LET idx == {i \in 0..(Len(s) - 1) : lo <= i /\ i < hi}
  IN [k \in 1..Cardinality(idx) |-> s[lo + k]]

\* C18: for every integer limit and every page >= 1 the list returned is
\* the items at indices [(page-1)*l, (page-1)*l + l) of the caller's
\* filtered sequence, l = min(limit, 100); itemsPerPage is l and totalItems
\* is the length of the whole filtered sequence.
C18_PageIsTheWindow ==
  \A header \in ClientHeaders, status \in StatusFilters,
     page \in {Undefined, "1", "2", "3"},
     limit \in {Undefined, "-1", "1", "2", "100", "101"} :
    LET r == ListTodosResponse(header, Query(status, Undefined, page, limit))
        found == Filtered(header, status)
        l == Min(LimitNumber(limit), 100)
        lo == (PageNumber(page) - 1) * l
    IN authenticate(header).next =>
         /\ r.status = 200
         /\ r.todos = MapToJSON(Window(found, lo, lo + l))
         /\ r.pagination.itemsPerPage = l
         /\ r.pagination.totalItems = Len(found)

(***************************************************************************)
(* The todo repository's listing and the defaults of a new todo.           *)
(***************************************************************************)
\* C19: findByUserId(userId, {status?, priority?}) returns each stored todo
\* of that user that equals every supplied filter, once, and no other, in
\* the order of creation, whatever creates, updates and deletes came before.
C19_FindByUserIdFilters ==
  \A userId \in {Alice.id, Bob.id}, status \in Statuses \cup {Undefined},
     priority \in Priorities \cup {Undefined} :
    LET found == todoFindByUserId(userId, [status |-> status, priority |-> priority])
        matches == {t \in Range(todos) :
                      /\ t.userId = userId
                      /\ status # Undefined => t.status = status
                      /\ priority # Undefined => t.priority = priority}
    IN /\ Range(found) = matches
       /\ Len(found) = Cardinality(matches)
       /\ \A i, j \in 1..Len(found) :
            i < j => /\ found[i].id < found[j].id
                     /\ found[i].createdAt <= found[j].createdAt

\* Two todos were created, one of them has been deleted and the other one
\* updated to completed after the clock moved.
C19_Witness ==
  /\ Len(todos) = 1
  /\ nextId = Bob.id + 3
  /\ todos[1].updatedAt > todos[1].createdAt
  /\ todos[1].status = "completed"

\* A request body that also names an owner.
WithUserId(body, userId) ==
  [f \in DOMAIN body \cup {"userId"} |->
     IF f = "userId" THEN userId ELSE body[f]]

TitleOnly == Body("Buy milk", Undefined, Undefined, Undefined, Undefined)

CreateBodies ==
  AnyBodies \cup {WithUserId(body, userId) :
                    body \in AnyBodies, userId \in {Alice.id, Bob.id, AbsentTodoId}}

HasDefaults(t) ==
  /\ t.status = "pending"
  /\ t.priority = "medium"
  /\ t.description = ""
  /\ t.dueDate = Null

\* C20: POST /api/todos stores the new todo under the caller's id whatever
\* the body holds, and with status pending, priority medium, description ""
\* and dueDate null when the body holds only a title; right after such a
\* todo was created, the caller's GET /api/todos?status=completed does not
\* return it (the unfiltered GET does).
C20_CreateDefaultsAndOwner ==
  /\ \A header \in ClientHeaders, body \in CreateBodies :
       LET r == CreateTodoResult(header, body)
           t == r.todos[Len(r.todos)]
       IN r.resp.status = 201 =>
            /\ r.todos = Append(todos, t)
            /\ t.userId = header.token.userId
            /\ t.userId = authenticate(header).user.id
            /\ t.title = body.title
            /\ (\A f \in {"description", "status", "priority", "dueDate"} :
                   body[f] = Undefined) => HasDefaults(t)
  /\ (/\ last.route = CreateTodoRoute
      /\ last.status = 201
      /\ HasDefaults(last.todos[1])) =>
       /\ todos[Len(todos)].id = last.todoId
       /\ TodoToJSON(todos[Len(todos)]) = last.todos[1]
       /\ todos[Len(todos)].userId = last.reqUser.id
       /\ \A header \in ClientHeaders :
            authenticate(header).user.id = last.reqUser.id =>
              /\ last.todoId \notin Ids(ListTodosResponse(header,
                    Query("completed", Undefined, Undefined, Undefined)).todos)
              /\ last.todoId \in Ids(ListTodosResponse(header,
                    Query(Undefined, Undefined, Undefined, Undefined)).todos)

\* The caller, who holds a completed todo, has just created one from a
\* title alone.
C20_Witness ==
  /\ last.route = CreateTodoRoute
  /\ last.status = 201
  /\ Len(todos) = 2
  /\ HasDefaults(todos[2])
  /\ todos[2].id = last.todoId
  /\ todos[1].userId = todos[2].userId
  /\ todos[1].status = "completed"

(***************************************************************************)
(* The fields of stored todos.                                             *)
(***************************************************************************)
\* C21: every stored todo has a status among pending, in-progress and
\* completed and a priority among low, medium and high, whatever status and
\* priority values POST and PUT bodies carried; a request refused for a bad
\* enum value changes no todo.
C21_StoredEnumsValid ==
  /\ \A t \in Range(todos) : t.status \in Statuses /\ t.priority \in Priorities
  /\ \A header \in ClientHeaders, id \in TodoIds, body \in FieldBodies :
       /\ CreateTodoResult(header, body).resp.status = 400 =>
             CreateTodoResult(header, body).todos = todos
       /\ UpdateTodoResult(header, id, body).resp.status = 400 =>
             UpdateTodoResult(header, id, body).todos = todos

\* C22: every stored todo has a non-empty title: a POST whose title is
\* absent or empty is answered 400 and stores nothing, and no PUT, whatever
\* title it carries, leaves a stored todo with an empty or missing title.
C22_StoredTitleNonEmpty ==
  /\ \A t \in Range(todos) : t.title \notin {Undefined, Null, ""}
  /\ \A header \in ClientHeaders, body \in FieldBodies :
       (authenticate(header).next /\ body.title \in {Undefined, ""}) =>
          /\ CreateTodoResult(header, body).resp.status = 400
          /\ CreateTodoResult(header, body).todos = todos
  /\ \A header \in ClientHeaders, id \in TodoIds, body \in FieldBodies :
       \A t \in Range(UpdateTodoResult(header, id, body).todos) :
          t.title \notin {Undefined, Null, ""}

\* A request body or an update that also carries an id.
WithId(body, id) ==
  [f \in DOMAIN body \cup {"id"} |-> IF f = "id" THEN id ELSE body[f]]

\* Bodies and updates naming another id and another owner.
IdBodies ==
  {WithId(WithUserId(body, userId), id) :
     body \in OwnershipBodies, userId \in {Alice.id, Bob.id},
     id \in {AbsentTodoId}}

UserIdUpdates ==
  {WithId([name |-> name, email |-> email, phone |-> Undefined,
           address |-> Undefined, password |-> NoDigest], id) :
     name \in NewNames \cup {Undefined}, email \in Emails \cup {Undefined},
     id \in {Alice.id, Bob.id, AbsentTodoId}}

SameIds(before, after) ==
  /\ Len(after) = Len(before)
  /\ \A i \in 1..Len(before) : after[i].id = before[i].id

SameOwners(before, after) ==
  /\ Len(after) = Len(before)
  /\ \A i \in 1..Len(before) : after[i].userId = before[i].userId

\* C23: a todo's id and userId stay what they were at creation: no PUT,
\* also none whose body names an id or a userId, and no todoDB.update
\* changes them, and no userDB.update changes a user's id; across every
\* step a todo that is still stored has the owner it had.
C23_IdsAreImmutable ==
  /\ [](\A header \in ClientHeaders, id \in TodoIds, body \in IdBodies :
          LET after == UpdateTodoResult(header, id, body).todos
          IN SameIds(todos, after) /\ SameOwners(todos, after))
  /\ [](\A id \in TodoIds, updates \in IdBodies :
          /\ SameIds(todos, todoUpdate(id, updates))
          /\ SameOwners(todos, todoUpdate(id, updates)))
  /\ [](\A id \in {Alice.id, Bob.id}, updates \in UserIdUpdates :
          SameIds(users, userUpdate(id, updates)))
  /\ [][/\ \A t \in Range(todos), u \in Range(todos') :
             t.id = u.id => t.userId = u.userId /\ t.createdAt = u.createdAt
        /\ last'.route = UpdateTodoRoute =>
             SameIds(todos, todos') /\ SameOwners(todos, todos')]_vars

\* A PUT by its owner has just changed a todo while the other user also
\* holds one.
C23_Witness ==
  /\ last.route = UpdateTodoRoute
  /\ last.status = 200
  /\ Len(todos) = 2
  /\ todos[1].userId # todos[2].userId
  /\ \E t \in Range(todos) :
       /\ t.id = last.todoId
       /\ t.updatedAt > t.createdAt
       /\ t.status = "completed"

(***************************************************************************)
(* Profile updates that change the password.                               *)
(***************************************************************************)
\* A step that completes the password change held in slot s.
PasswordChangeEnds(s) ==
  /\ inflight[s].op = "password"
  /\ inflight'[s] = Idle

\* C24: a stored password hash changes only by a profile update whose
\* currentPassword verified against the stored hash it was checked with and
\* whose newPassword has at least 8 characters; a refused update leaves
\* the stored users as they were; a successful one writes the new hash and
\* the new name in one userDB.update, so both appear in the same step.
C24_PasswordChangeVerified ==
  /\ [][\A i \in 1..Len(users) :
          users'[i].password # users[i].password =>
            \E s \in Slots :
              /\ PasswordChangeEnds(s)
              /\ inflight[s].user.id = users[i].id
              /\ inflight[s].digest = BcryptHash(inflight[s].password)
              /\ Len(inflight[s].newPassword) >= 8
              /\ users'[i].password = BcryptHash(inflight[s].newPassword)]_vars
  /\ [][(last'.route = UpdateProfileRoute /\ last'.status \in {400, 401, 409}) =>
          users' = users]_vars
  /\ [][\A s \in Slots :
          (PasswordChangeEnds(s) /\ last'.status = 200) =>
            LET id == inflight[s].user.id
                before == userFindById(id)
                after == CHOOSE u \in Range(users') : u.id = id
            IN /\ after.password = BcryptHash(inflight[s].newPassword)
               /\ after.name = IF inflight[s].name # Undefined
                               THEN inflight[s].name ELSE before.name
               /\ after.email = before.email
               /\ after.id = before.id
               /\ \A u \in StoredUsers : u.id # id => u \in Range(users')
               /\ Len(users') = Len(users)]_vars
  /\ [](\A s \in Slots : inflight[s].op = "password" =>
          /\ Len(inflight[s].newPassword) >= 8
          /\ Stored(inflight[s].user.id))

\* alice's profile update has just set both her new name and the hash of
\* her new password.
C24_Witness ==
  /\ last.route = UpdateProfileRoute
  /\ last.status = 200
  /\ userFindById(Alice.id).password = BcryptHash("password456")
  /\ userFindById(Alice.id).name = "Alicia"
  /\ last.user.id = Alice.id
  /\ userFindById(Bob.id) = Bob

(***************************************************************************)
(* What a client is shown of a user.                                       *)
(***************************************************************************)
PublicUserFields ==
  {"id", "name", "email", "phone", "address", "createdAt", "updatedAt"}

\* C25: the user record in every register and login response, and the
\* toJSON projection of every stored user after any updates, has no
\* password field; it is the projection of the user the token names.
C25_NoPasswordInResponses ==
  /\ DOMAIN last.user = PublicUserFields
  /\ \A u \in StoredUsers :
       /\ u.password = BcryptHash(u.password[2])
       /\ DOMAIN UserToJSON(u) = PublicUserFields
       /\ \A f \in PublicUserFields : UserToJSON(u)[f] = u[f]
  /\ (last.route \in {RegisterRoute, LoginRoute} /\ last.status \in {200, 201}) =>
       /\ last.user.id = last.token.userId
       /\ last.user.email \in Emails

\* A login has just returned the record of a user who had changed their
\* name before.
C25_Witness ==
  /\ last.route = LoginRoute
  /\ last.status = 200
  /\ last.user.name = "Alicia"
  /\ \E u \in StoredUsers :
       /\ u.id = last.user.id
       /\ u.password = BcryptHash("password123")

(***************************************************************************)
(* The client's logout.                                                    *)
(***************************************************************************)
\* C26: when the client's logout ends, localStorage holds no token and no
\* user and the user in memory is null (isAuthenticated false), whether
\* the server answered 200, answered 401, or the call failed unanswered.
C26_ClientLogoutClears ==
  [][(client.phase = "logout" /\ client'.phase = "idle") =>
          /\ client'.token = NoToken
          /\ client'.storedUser = NoUserJSON
          /\ client'.user = NoUserJSON
          /\ last.status \in {0, 200, 401}
          /\ last.status = 401 => client'.location = "/login"]_vars

\* A signed-in client's logout was refused for an expired token, and the
\* client ended signed out.
C26_Witness ==
  /\ client.phase = "idle"
  /\ client.user = NoUserJSON
  /\ client.token = NoToken
  /\ client.location = "/login"
  /\ last.route = LogoutRoute
  /\ last.status = 401
  /\ last.message = "Token has expired"

(***************************************************************************)
(* The repositories' update calls.                                         *)
(***************************************************************************)
TodoFields == {"title", "description", "status", "priority", "dueDate"}

UserFields == {"name", "email", "phone", "address", "password"}

\* Whether a partial provides a value for field f.
Provided(partial, f) ==
  IF f = "password" THEN partial[f] # NoDigest ELSE partial[f] # Undefined

TodoPartials ==
  [title : {Undefined, "Walk dog"}, description : {Undefined, "twice"},
   status : {Undefined, "completed"}, priority : {Undefined, "high"},
   dueDate : {Undefined, Null, "2030-01-01"}]

UserPartials ==
  [name : {Undefined, "Alicia"}, email : {Undefined, "carol@example.com"},
   phone : {Undefined, Null, "555-0100"}, address : {Undefined, "1 Main St"},
   password : {NoDigest, BcryptHash("password456")}]

\* after is before with the entity of that id merged with the partial and
\* stamped, and returned is that entity; or nothing has that id, after is
\* before and returned is nothing.
MergedInto(before, after, returned, nothing, id, partial, fields) ==
  IF \A i \in 1..Len(before) : before[i].id # id
  THEN after = before /\ returned = nothing
  ELSE /\ Len(after) = Len(before)
       /\ \A i \in 1..Len(before) :
            IF before[i].id # id
            THEN after[i] = before[i]
            ELSE /\ DOMAIN after[i] = DOMAIN before[i]
                 /\ \A f \in fields :
                      after[i][f] = IF Provided(partial, f) THEN partial[f]
                                    ELSE before[i][f]
                 /\ \A f \in DOMAIN before[i] \ (fields \cup {"updatedAt"}) :
                      after[i][f] = before[i][f]
                 /\ after[i].updatedAt = now
                 /\ after[i].createdAt = before[i].createdAt
                 /\ returned = after[i]

\* C27: userDB.update and todoDB.update write the provided fields of the
\* partial into the entity of that id and nothing else of it but updatedAt,
\* which becomes the current time; createdAt and every other entity stay;
\* with no entity of that id the collection stays and null is returned.
C27_UpdateMergesPartial ==
  /\ \A id \in SeededIds \cup {NoId}, partial \in TodoPartials :
       MergedInto(todos, todoUpdate(id, partial), todoUpdateReturn(id, partial),
                  NoTodo, id, partial, TodoFields)
  /\ \A id \in {Alice.id, Bob.id, Bob.id + 1, NoId}, partial \in UserPartials :
       MergedInto(users, userUpdate(id, partial), userUpdateReturn(id, partial),
                  NoUser, id, partial, UserFields)

\* After the clock advanced, a profile update has renamed one user and a
\* PUT has changed one of several todos, each stamped later than created;
\* the other user and another todo are as created.
C27_Witness ==
  /\ now > 0
  /\ \E u \in Range(users) :
       u.name = "Alicia" /\ u.updatedAt = now /\ u.createdAt < now
  /\ \E u \in Range(users) : u.updatedAt = u.createdAt
  /\ \E t \in Range(todos) :
       t.title = "Walk dog" /\ t.updatedAt = now /\ t.createdAt < now
  /\ \E t \in Range(todos) : t.updatedAt = t.createdAt

(***************************************************************************)
(* Sessions of one user.                                                   *)
(***************************************************************************)
\* C28: a logout revokes only the session it was sent with: the token a
\* separate login of the same user has just been handed, also one issued
\* in the clock second of the revoked token, is not in the revoked set and
\* is accepted by authenticate while the user is stored.
C28_LogoutRevokesOneSession ==
  (/\ last.route = LoginRoute
   /\ last.status = 200
   /\ Stored(last.user.id)) =>
     /\ ~isInvalidated(last.token)
     /\ authenticate(Bearer(last.token)).next

(***************************************************************************)
(* Logins racing with account deletion.                                    *)
(***************************************************************************)
\* C29: when POST /api/auth/login answers 'Login successful' with a token,
\* the user the token names is stored at that moment, whatever other
\* requests were handled while the password verification was pending.
C29_LoginIssuesForStoredUser ==
  (/\ last.route = LoginRoute
   /\ last.status = 200
   /\ last.message = "Login successful") =>
     Stored(last.token.userId)

(***************************************************************************)
(* Tokens of deleted accounts.                                             *)
(***************************************************************************)
\* C30: a token authenticates only as the user it was issued to; a user
\* stored anew never receives an id a token was issued to before; once the
\* user of a token is deleted the id stays absent, and authenticate
\* rejects the token, with 'User not found' when it is otherwise valid,
\* also after the same email has been registered again.
C30_DeletedUsersTokenStaysDead ==
  /\ [](\A i \in issued :
          LET a == authenticate(Bearer(i.token))
          IN /\ a.next => a.user.id = i.userId
             /\ ~Stored(i.userId) =>
                  /\ ~a.next
                  /\ (~isInvalidated(i.token) /\ JwtVerify(i.token).ok) =>
                       a.status = 401 /\ a.message = "User not found")
  /\ [][/\ \A u \in Range(users') :
             (\A v \in Range(users) : v.id # u.id) =>
                \A i \in issued : i.userId # u.id
        /\ \A i \in issued :
             ~Stored(i.userId) => \A u \in Range(users') : u.id # i.userId]_vars

\* A login still pending holds a user who has been deleted since; the
\* email of that user has just been registered again under another id, and
\* the token issued to the deleted user is answered 'User not found'.
C30_Witness ==
  \E s \in Slots, i \in issued, u \in Range(users) :
    /\ last.route = RegisterRoute
    /\ last.status = 201
    /\ last.user.id = u.id
    /\ inflight[s].op = "login"
    /\ inflight[s].user.id = i.userId
    /\ ~Stored(i.userId)
    /\ u.email = inflight[s].user.email
    /\ u.id # i.userId
    /\ authenticate(Bearer(i.token)).message = "User not found"

====
